---- MODULE Spec2Model ----
(***************************************************************************)
(* A model of shsh (src/main.c): the interactive loop, lsh_execute, the     *)
(* processes it forks, their descriptor tables and the pipes between them.  *)
(*                                                                          *)
(* A C string is a sequence of one-character strings; a char* that is NULL  *)
(* is Null and a pointer that cannot be dereferenced is Wild.  An array     *)
(* char** is a sequence; C index k is element k+1.                          *)
(***************************************************************************)
EXTENDS Integers, Sequences, FiniteSets, TLC

(* ------------------------------ bounds --------------------------------- *)
\* longest pipeline (in stages) the interactive user types
MaxStages == 3
\* lines the terminal delivers to a stage reading it before end-of-input
MaxTty == 2
\* uninitialised slots of the token array that hold a stale string pointer
MaxJunk == 1
\* highest descriptor number of a process's descriptor table
MaxFd == 6
\* most "|" tokens in a line of the long pipelines
MaxBars == 10

(* ------------------------- program constants --------------------------- *)
\* int pipe_locate[10]
PipeLocateSize == 10
\* int pfd[9][2]
PfdSize == 9

(* ------------------------------ strings -------------------------------- *)
Null == <<"NULL">>
Wild == <<"WILD">>

\* the bytes the model uses, in ascending byte order
Ascii ==
  << "\n", " ", "$", "(", ")", "-", "/", "0", "1", "2", "3", "4", "5", "6",
     "7", "8", "9", ":", "E", "H", "L", "S", "[", "]", "a", "b", "c", "d", "e", "f",
     "h", "i", "l", "n", "o", "p", "r", "s", "t", "u", "w", "x", "|" >>

Code(ch) == CHOOSE k \in 1..Len(Ascii) : Ascii[k] = ch

\* the one element of a singleton: Only({F(v) : v \in {e}}) is F at the value
\* of e, with e evaluated once
Only(S) == CHOOSE x \in S : TRUE

RECURSIVE strcmp(_, _)
strcmp(s, t) ==
  IF s = <<>> /\ t = <<>> THEN 0
  ELSE IF s = <<>> THEN 0 - 1
  ELSE IF t = <<>> THEN 1
  ELSE IF Head(s) # Head(t) THEN Code(Head(s)) - Code(Head(t))
  ELSE strcmp(Tail(s), Tail(t))

\* printf("%d") of a non-negative int
RECURSIVE Dec(_)
Dec(n) ==
  LET d == <<"0", "1", "2", "3", "4", "5", "6", "7", "8", "9">>
  IN  IF n < 10 THEN <<d[n + 1]>> ELSE Dec(n \div 10) \o <<d[(n % 10) + 1]>>

\* the lines of a byte stream as fgets and strcspn(buffer, "\n") deliver them:
\* each line without its newline; a last line without newline is a line too
RECURSIVE SplitLines(_, _)
SplitLines(bytes, cur) ==
  IF bytes = <<>> THEN (IF cur = <<>> THEN <<>> ELSE <<cur>>)
  ELSE IF Head(bytes) = "\n" THEN <<cur>> \o SplitLines(Tail(bytes), <<>>)
  ELSE SplitLines(Tail(bytes), Append(cur, Head(bytes)))

(* ------------------------------ tokens --------------------------------- *)
T_cd    == <<"c", "d">>
T_cat   == <<"c", "a", "t">>
T_echo  == <<"e", "c", "h", "o">>
T_help  == <<"h", "e", "l", "p">>
T_exit  == <<"e", "x", "i", "t">>
T_pwd   == <<"p", "w", "d">>
T_sort  == <<"s", "o", "r", "t">>
Bar     == <<"|">>
\* external programs of the environment: ls writes and exits, wc reads its
\* standard input to the end, then writes and exits; xx is not installed
T_ls    == <<"l", "s">>
T_wc    == <<"w", "c">>
T_xx    == <<"x", "x">>

builtin_str == <<T_cd, T_cat, T_echo, T_help, T_exit, T_pwd, T_sort>>

lsh_num_builtins == Len(builtin_str)

\* the loop of lsh_launch over builtin_str: the first matching index, or 0
BuiltinIndex(name) ==
  IF \E j \in 1..lsh_num_builtins : strcmp(name, builtin_str[j]) = 0
  THEN CHOOSE j \in 1..lsh_num_builtins :
         /\ strcmp(name, builtin_str[j]) = 0
         /\ \A k \in 1..(j - 1) : strcmp(name, builtin_str[k]) # 0
  ELSE 0

(* --------------------------- the environment --------------------------- *)
\* setenv("0", ...) and setenv("SHELL", ...) of main; every other name is unset
ShellName == <<"-", " ", "S", "H", "S", "H">>

getenv(name) ==
  IF name = <<"0">> \/ name = <<"S", "H", "E", "L", "L">> THEN ShellName ELSE Null

\* what printf("%s", NULL) can do: print "(null)", or dereference the pointer
NullText == <<"(", "n", "u", "l", "l", ")">>
NullPrints == {NullText, Wild}

\* the file system: directories, and one readable file f
Root == <<"/">>
Dirs == {Root, <<"/", "d">>, <<"/", "c", "d">>}
FileF == <<"f">>
FileData == <<"b", "\n", "a", "\n">>

\* chdir(path) from cwd: the new working directory, or Null when it fails
chdir(cwd, path) ==
  LET abs == IF Head(path) = "/" THEN path
             ELSE IF cwd = Root THEN Root \o path ELSE cwd \o <<"/">> \o path
  IN  IF abs \in Dirs THEN abs ELSE Null

(* ------------------------------ built-ins ------------------------------ *)
\* Every built-in gets the stage's strings a (a[1] is the command name, the
\* sequence ends where the C array holds NULL) and yields
\* [out: bytes for stdout, err: messages for stderr, ret: its return value,
\*  crash: it dereferenced a bad pointer, cwd: the working directory after].
Result(o, e, r, c, d) == [out |-> o, err |-> e, ret |-> r, crash |-> c, cwd |-> d]

lsh_cd(a, cwd) ==
  IF chdir(cwd, a[1]) = Null
  THEN Result(<<>>, {"perror"}, 1, FALSE, cwd)
  ELSE Result(<<>>, {}, 1, FALSE, chdir(cwd, a[1]))

lsh_pwd(a, cwd) == Result(cwd \o <<"\n">>, {}, 1, FALSE, cwd)

\* the text of one argument of echo
EchoArg(s, nul) == IF Head(s) = "$" THEN (IF getenv(Tail(s)) = Null THEN nul ELSE getenv(Tail(s))) ELSE s

\* a mutant of EchoSep: echo ends every argument with a newline
EchoSepNewline == <<"\n">>

\* what echo prints between two arguments
EchoSep == <<" ">>

RECURSIVE EchoFrom(_, _, _)
EchoFrom(a, k, nul) ==
  IF k > Len(a) THEN <<>>
  ELSE EchoArg(a[k], nul) \o (IF k + 1 <= Len(a) THEN EchoSep ELSE <<"\n">>)
       \o EchoFrom(a, k + 1, nul)

lsh_echo(a, nul, cwd) ==
  LET bad == nul = Wild /\ \E k \in 2..Len(a) : Head(a[k]) = "$" /\ getenv(Tail(a[k])) = Null
  IN  IF bad THEN Result(<<>>, {}, 1, TRUE, cwd)
      ELSE Result(EchoFrom(a, 2, nul), {}, 1, FALSE, cwd)

RECURSIVE CatFrom(_, _)
CatFrom(a, k) ==
  IF k > Len(a) THEN [out |-> <<>>, err |-> {}]
  ELSE IF a[k] # FileF THEN [out |-> <<>>, err |-> {"cat: file not found"}]
  ELSE Only({[out |-> FileData \o r.out, err |-> r.err] : r \in {CatFrom(a, k + 1)}})

lsh_cat(a, cwd) ==
  IF Len(a) < 2 THEN Result(<<>>, {"cat: usage"}, 1, FALSE, cwd)
  ELSE Only({Result(r.out, r.err, 1, FALSE, cwd) : r \in {CatFrom(a, 2)}})

\* the loop of lsh_help over builtin_str; the five fixed sentences around it
\* carry no state and are left out of the byte stream
RECURSIVE HelpFrom(_)
HelpFrom(k) ==
  IF k > lsh_num_builtins THEN <<>>
  ELSE <<" ", " ">> \o builtin_str[k] \o <<"\n">> \o HelpFrom(k + 1)

lsh_help(a, cwd) == Result(HelpFrom(1), {}, 1, FALSE, cwd)

\* a mutant of lsh_exit: exit returns 1 like the other built-ins
lsh_exit_continue(a, cwd) == Result(<<>>, {}, 1, FALSE, cwd)

lsh_exit(a, cwd) == Result(<<>>, {}, 0, FALSE, cwd)

(* --- sort --- *)
\* the bubble sort of lsh_sort on the strings a[1..Len(a)] (C: args[1..len-1])
RECURSIVE SortFrom(_, _, _)
SortFrom(a, m, n) ==
  IF m > Len(a) THEN a
  ELSE IF n > Len(a) THEN SortFrom(a, m + 1, m + 2)
  ELSE Only({SortFrom(b, m, n + 1) :
              b \in {IF strcmp(a[m], a[n]) > 0
                     THEN [a EXCEPT ![m] = a[n], ![n] = a[m]] ELSE a}})

BubbleSort(a) == SortFrom(a, 1, 2)

RECURSIVE PrintFrom(_, _)
PrintFrom(a, m) ==
  IF m > Len(a) THEN <<>>
  ELSE <<"[">> \o Dec(m) \o <<"]", ":", " ">> \o a[m] \o <<"\n">> \o PrintFrom(a, m + 1)

\* args[position++] = strdup(line) for each line read, from C index p + 1 of
\* the token array arr on; a store past the known slots extends them
RECURSIVE StoreLines(_, _, _)
StoreLines(arr, q, lines) ==
  IF lines = <<>> THEN arr
  ELSE Only({StoreLines(b, q + 1, Tail(lines)) :
              b \in {IF q + 1 <= Len(arr) THEN [arr EXCEPT ![q + 1] = Head(lines)]
                     ELSE Append(arr, Head(lines))}})

\* the slots from C index q up to the first NULL; found tells whether a NULL
\* ended them or the known slots ran out
RECURSIVE UpToNull(_, _)
UpToNull(arr, q) ==
  IF q + 1 > Len(arr) THEN [items |-> <<>>, found |-> FALSE]
  ELSE IF arr[q + 1] = Null THEN [items |-> <<>>, found |-> TRUE]
  ELSE Only({[items |-> <<arr[q + 1]>> \o r.items, found |-> r.found] :
              r \in {UpToNull(arr, q + 1)}})

\* what the slots after the known ones can hold: stale strings up to a NULL,
\* or up to a pointer that cannot be dereferenced
JunkStrs == {<<"x">>, <<"a">>}

RECURSIVE SeqsUpTo(_, _)
SeqsUpTo(S, n) ==
  IF n = 0 THEN {<<>>}
  ELSE SeqsUpTo(S, n - 1) \cup {Append(s, x) : s \in SeqsUpTo(S, n - 1), x \in S}

JunkTails == [items : SeqsUpTo(JunkStrs, MaxJunk), crash : BOOLEAN]

NoJunk == [items |-> <<>>, crash |-> FALSE]

\* what lsh_sort sorts: called on the token array arr at C index p, after it
\* read the lines `lines` (none when it has arguments)
SortItems(arr, p, lines, junk) ==
  Only({IF known.found THEN [items |-> known.items, crash |-> FALSE]
        ELSE [items |-> known.items \o junk.items, crash |-> junk.crash] :
        known \in {UpToNull(stored, p + 1) :
                     stored \in {IF arr[p + 2] = Null
                                 THEN StoreLines(arr, p + 1, lines) ELSE arr}}})

lsh_sort(arr, p, lines, junk, cwd) ==
  Only({IF s.crash THEN Result(<<>>, {}, 1, TRUE, cwd)
        ELSE Only({Result(PrintFrom(b, 1), {}, 1, FALSE, cwd) :
                    b \in {BubbleSort(s.items)}}) :
        s \in {SortItems(arr, p, lines, junk)}})

\* args[1] == NULL: sort reads its standard input
SortReads(arr, p) == arr[p + 2] = Null

(* --------------------------- command lines ----------------------------- *)
A == <<"a">>
B == <<"b">>
C == <<"c">>

\* the lines the user types, as lsh_split_line tokenises them
AllLines ==
  { <<>>,
    <<T_exit>>, <<T_echo, A, B, C>>, <<T_echo, <<"$", "0">>, <<"$", "x">>>>,
    <<T_sort, B, A>>, <<T_sort>>, <<T_cd, <<"d">>>>, <<T_pwd>>,
    <<T_cat, FileF, A>>, <<T_help>>, <<T_ls>>, <<T_wc>>, <<T_xx>>,
    <<T_echo, A, B, C, Bar, T_sort>>,
    <<T_echo, C, A, Bar, T_sort>>,
    <<T_sort, Bar, T_sort>>,
    <<T_sort, B, A, Bar, T_sort>>,
    <<T_sort, Bar, T_cat, FileF>>,
    <<T_ls, Bar, T_wc>>,
    <<T_xx, Bar, T_sort>>,
    <<T_exit, Bar, T_ls>>,
    <<T_ls, Bar, T_exit>>,
    <<Bar, T_ls>>, <<T_ls, Bar>>, <<Bar>>,
    <<T_ls, Bar, Bar, T_sort>>,
    <<T_echo, B, A, Bar, T_sort, Bar, T_sort>>,
    <<T_ls, Bar, T_wc, Bar, T_sort>>,
    <<T_wc, Bar, T_exit, Bar, T_xx>>,
    <<T_echo, A, Bar, T_sort, Bar, T_sort, Bar, T_sort>>,
    <<T_ls, Bar, T_xx, Bar, T_wc, Bar, T_sort>> }

NumStages(l) == 1 + Cardinality({k \in 1..Len(l) : l[k] = Bar})

Lines == {l \in AllLines : NumStages(l) <= MaxStages}

\* what the user types at a stage that reads the terminal
TtyLines == {B, A}

(* ------------------------- external programs --------------------------- *)
Installed == {T_ls, T_wc}
ProgReads(name) == name = T_wc
LsOut == <<"b", "\n", "a", "\n">>
LsExitCodes == {0, 2}
WcOut(bytes) == Dec(Len(SplitLines(bytes, <<>>))) \o <<"\n">>

(* ---------------------------- wait statuses ---------------------------- *)
EXIT_SUCCESS == 0
EXIT_FAILURE == 1
SIGSEGV == 11
SIGPIPE == 13
SIGTERM == 15
W_EXITCODE(code) == (code % 256) * 256
WIFEXITED(s) == s % 128 = 0
WIFSIGNALED(s) == (s % 128) # 0 /\ (s % 128) # 127
WEXITSTATUS(s) == (s \div 256) % 256

(* ---------------------------- descriptors ------------------------------ *)
Fds == 0..MaxFd
Closed == <<"closed", 0>>
Tty == <<"tty", 0>>
R(c) == <<"r", c>>
W(c) == <<"w", c>>
Chans == 0..(MaxStages - 1)
StageIds == 0..(MaxStages - 1)

NoFds == [f \in Fds |-> Closed]
StdFds == [f \in Fds |-> IF f <= 2 THEN Tty ELSE Closed]

close(t, fd) == IF fd \in Fds THEN [t EXCEPT ![fd] = Closed] ELSE t

dup2(t, old, new) ==
  IF old \in Fds /\ t[old] # Closed THEN [t EXCEPT ![new] = t[old]] ELSE t

MinOf(S) == CHOOSE x \in S : \A y \in S : x <= y
FreeFds(t) == {f \in Fds : t[f] = Closed}
\* pipe(): the two lowest free descriptors, read end first
PipeFds(t) == <<MinOf(FreeFds(t)), MinOf(FreeFds(t) \ {MinOf(FreeFds(t))})>>

(* ------------------------------- state --------------------------------- *)
VARIABLES
  pc,           \* where the interactive process is: in lsh_loop or lsh_execute
  args,         \* the token array of the line, NULL-terminated
  i,            \* lsh_execute's i
  pipe_count,   \* lsh_execute's pipe_count
  pipe_locate,  \* lsh_execute's pipe_locate, as far as it was written
  pfd,          \* lsh_execute's pfd: channel -> <<read fd, write fd>>
  status,       \* lsh_execute's status
  ret,          \* the value lsh_execute returned to lsh_loop
  proc,         \* the processes: state, position, descriptor table, buffers
  chan,         \* the bytes in each pipe
  made,         \* the pipes created for this line
  tty,          \* lines the terminal has delivered to a stage of this line
  out,          \* the bytes each stage has written to its descriptor 1
  err,          \* the messages written to standard error for this line
  line,         \* the tokens of the line as typed
  failed,       \* the pipe and fork calls that failed for this line
  launched      \* <<stage, strings>>: the argument lists lsh_launch was called on

vars == <<pc, args, i, pipe_count, pipe_locate, pfd, status, ret, proc, chan,
          made, tty, out, err, line, failed, launched>>

Shell == <<"shell", 0>>
Stage(k) == <<"stage", k>>
Prog(k) == <<"prog", k>>
ProcIds == {Shell} \cup {Stage(k) : k \in StageIds} \cup {Prog(k) : k \in StageIds}

NoProc ==
  [st |-> "none", pc |-> "-", fds |-> NoFds, inbuf |-> <<>>, outbuf |-> <<>>,
   code |-> 0, status |-> 0, cwd |-> Root]

ShellProc == [NoProc EXCEPT !.st = "run", !.fds = StdFds]

Readers(c) ==
  {p \in ProcIds : proc[p].st = "run" /\ \E f \in Fds : proc[p].fds[f] = R(c)}
Writers(c) ==
  {p \in ProcIds : proc[p].st = "run" /\ \E f \in Fds : proc[p].fds[f] = W(c)}

\* exit(code): the process ends, its descriptors are closed
Exited(rec, code) ==
  [rec EXCEPT !.st = "zombie", !.pc = "-", !.fds = NoFds, !.outbuf = <<>>,
              !.status = W_EXITCODE(code)]
\* the process is killed by signal sig
Killed(rec, sig) ==
  [rec EXCEPT !.st = "zombie", !.pc = "-", !.fds = NoFds, !.outbuf = <<>>,
              !.status = sig]

Init ==
  /\ pc = "read"
  /\ args = <<Null>>
  /\ i = 0
  /\ pipe_count = 0
  /\ pipe_locate = <<0 - 1>>
  /\ pfd = [c \in Chans |-> <<0 - 1, 0 - 1>>]
  /\ status = 0
  /\ ret = 1
  /\ proc = [p \in ProcIds |-> IF p = Shell THEN ShellProc ELSE NoProc]
  /\ chan = [c \in Chans |-> <<>>]
  /\ made = {}
  /\ tty = 0
  /\ out = [k \in StageIds |-> <<>>]
  /\ err = {}
  /\ line = <<>>
  /\ failed = {}
  /\ launched = {}

(* ---------------------------- lsh_loop --------------------------------- *)
\* what lsh_read_line can hold in its buffer when no newline has come yet
Partials == {<<T_ls>>, <<T_exit>>}

\* l continues what was read so far
Continues(l, sofar) ==
  Len(l) >= Len(sofar) /\ SubSeq(l, 1, Len(sofar)) = sofar

\* lsh_read_line has read the first characters of a line, no newline yet
ReadPartial ==
  /\ pc = "read"
  /\ proc[Shell].fds[0] = Tty
  /\ \E l \in Partials : line' = l
  /\ pc' = "reading"
  /\ UNCHANGED <<launched, failed, args, i, pipe_count, pipe_locate, pfd, status, ret, proc, chan, made,
                 tty, out, err>>

\* lsh_read_line meets the newline and lsh_split_line delivers the tokens
ReadLine ==
  /\ pc \in {"read", "reading"}
  /\ proc[Shell].fds[0] = Tty
  /\ \E l \in Lines :
       /\ Continues(l, line)
       /\ line' = l
       /\ args' = l \o <<Null>>
  /\ pc' = "execute"
  /\ UNCHANGED <<launched, failed, i, pipe_count, pipe_locate, pfd, status, ret, proc, chan, made,
                 tty, out, err>>

\* a mutant of ReadEnd: end-of-input ends the program with EXIT_FAILURE
ReadEndFailure ==
  /\ pc \in {"read", "reading"}
  /\ pc' = "exited"
  /\ proc' = [proc EXCEPT ![Shell] = Exited(@, EXIT_FAILURE)]
  /\ UNCHANGED <<launched, line, failed, args, i, pipe_count, pipe_locate, pfd, status, ret, chan, made,
                 tty, out, err>>

\* getchar() returns EOF, at the start of a line or after a part of one:
\* exit(EXIT_SUCCESS)
ReadEnd ==
  /\ pc \in {"read", "reading"}
  /\ pc' = "exited"
  /\ proc' = [proc EXCEPT ![Shell] = Exited(@, EXIT_SUCCESS)]
  /\ UNCHANGED <<launched, line, failed, args, i, pipe_count, pipe_locate, pfd, status, ret, chan, made,
                 tty, out, err>>

\* while (status): the loop goes on or main returns EXIT_SUCCESS; the record
\* of the line just executed is dropped
LoopTest ==
  /\ pc = "ret"
  /\ pc' = IF ret # 0 THEN "read" ELSE "exited"
  /\ proc' = [p \in ProcIds |->
                IF p = Shell
                THEN (IF ret # 0 THEN proc[Shell] ELSE Exited(proc[Shell], EXIT_SUCCESS))
                ELSE NoProc]
  /\ args' = <<Null>>
  /\ i' = 0
  /\ pipe_count' = 0
  /\ pipe_locate' = <<0 - 1>>
  /\ pfd' = [c \in Chans |-> <<0 - 1, 0 - 1>>]
  /\ status' = 0
  /\ chan' = [c \in Chans |-> <<>>]
  /\ made' = {}
  /\ tty' = 0
  /\ out' = [k \in StageIds |-> <<>>]
  /\ err' = {}
  /\ line' = <<>>
  /\ failed' = {}
  /\ launched' = {}
  /\ UNCHANGED ret

(* --------------------------- lsh_execute ------------------------------- *)
\* the scan for "|" tokens: each is counted, located and overwritten by NULL
RECURSIVE ScanPipes(_, _, _, _)
ScanPipes(a, k, cnt, loc) ==
  IF a[k + 1] = Null THEN [args |-> a, pipe_count |-> cnt, pipe_locate |-> loc]
  ELSE IF strcmp(a[k + 1], Bar) = 0
       THEN Only({ScanPipes(b, k + 1, cnt + 1, Append(loc, k)) :
                   b \in {[a EXCEPT ![k + 1] = Null]}})
       ELSE ScanPipes(a, k + 1, cnt, loc)

\* an empty line: return 1
ExecuteEmpty ==
  /\ pc = "execute"
  /\ args[1] = Null
  /\ ret' = 1
  /\ pc' = "ret"
  /\ UNCHANGED <<launched, line, failed, args, i, pipe_count, pipe_locate, pfd, status, proc, chan, made,
                 tty, out, err>>

ExecuteScan ==
  /\ pc = "execute"
  /\ args[1] # Null
  /\ \E s \in {ScanPipes(args, 0, 0, <<0 - 1>>)} :
         /\ args' = s.args
         /\ pipe_count' = s.pipe_count
         /\ pipe_locate' = s.pipe_locate
         /\ pc' = IF s.pipe_count = 0 THEN "fork1" ELSE "pipe"
  /\ i' = 0
  /\ UNCHANGED <<launched, line, failed, pfd, status, ret, proc, chan, made, tty, out, err>>

\* fork(): the child is a copy of the parent; where it starts is pos
Child(parent, pos) == [parent EXCEPT !.pc = pos, !.st = "run"]

\* no pipe: fork, the child runs exit(lsh_launch(args))
ForkSingle ==
  /\ pc = "fork1"
  /\ proc' = [proc EXCEPT ![Stage(0)] = Child(proc[Shell], "launch")]
  /\ pc' = "wait1"
  /\ UNCHANGED <<launched, line, failed, args, i, pipe_count, pipe_locate, pfd, status, ret, chan, made,
                 tty, out, err>>

\* the value lsh_execute returns for a single command
SingleResult(s) == WEXITSTATUS(s)

\* waitpid(pid, &status, WUNTRACED) until the child has exited or was killed
WaitSingle ==
  /\ pc = "wait1"
  /\ proc[Stage(0)].st = "zombie"
  /\ proc' = [proc EXCEPT ![Stage(0)].st = "reaped"]
  /\ status' = proc[Stage(0)].status
  /\ WIFEXITED(status') \/ WIFSIGNALED(status')
  /\ ret' = SingleResult(status')
  /\ pc' = "ret"
  /\ UNCHANGED <<launched, line, failed, args, i, pipe_count, pipe_locate, pfd, chan, made, tty, out, err>>

(* --- the pipeline loop of lsh_execute --- *)
\* pipe(pfd[i]) for i # pipe_count
MakePipe ==
  /\ pc = "pipe"
  /\ Cardinality(FreeFds(proc[Shell].fds)) >= 2
  /\ LET fd == PipeFds(proc[Shell].fds)
     IN  /\ pfd' = [pfd EXCEPT ![i] = fd]
         /\ proc' = [proc EXCEPT ![Shell].fds[fd[1]] = R(i), ![Shell].fds[fd[2]] = W(i)]
  /\ made' = made \cup {i}
  /\ pc' = "fork"
  /\ UNCHANGED <<launched, line, failed, args, i, pipe_count, pipe_locate, status, ret, chan, tty, out, err>>

\* fork() for stage i
ForkStage ==
  /\ pc = "fork"
  /\ proc' = [proc EXCEPT ![Stage(i)] = Child(proc[Shell], "redir")]
  /\ pc' = "close"
  /\ UNCHANGED <<launched, line, failed, args, i, pipe_count, pipe_locate, pfd, status, ret, chan, made,
                 tty, out, err>>

\* a mutant of ParentCloseFds: the parent closes the read end only
ParentCloseReadOnly(t, k, pf) == IF k > 0 THEN close(t, pf[k - 1][1]) ELSE t

\* the parent after fork(): for i > 0, close(pfd[i-1][0]); close(pfd[i-1][1])
ParentCloseFds(t, k, pf) ==
  IF k > 0 THEN close(close(t, pf[k - 1][1]), pf[k - 1][2]) ELSE t

ParentClose ==
  /\ pc = "close"
  /\ proc' = [proc EXCEPT ![Shell].fds = ParentCloseFds(@, i, pfd)]
  /\ IF i + 1 < pipe_count + 1
     THEN /\ i' = i + 1
          /\ pc' = IF i + 1 # pipe_count THEN "pipe" ELSE "fork"
     ELSE /\ i' = 0
          /\ pc' = "wait"
  /\ UNCHANGED <<launched, line, failed, args, pipe_count, pipe_locate, pfd, status, ret, chan, made, tty,
                 out, err>>

Children == {Stage(k) : k \in StageIds}

\* wait(&status): a terminated child is collected
WaitChild ==
  /\ pc = "wait"
  /\ i < pipe_count + 1
  /\ \E p \in Children :
       /\ proc[p].st = "zombie"
       /\ proc' = [proc EXCEPT ![p].st = "reaped"]
       /\ status' = proc[p].status
  /\ i' = i + 1
  /\ UNCHANGED <<launched, line, failed, pc, args, pipe_count, pipe_locate, pfd, ret, chan, made, tty, out, err>>

\* a mutant of PipelineResult: the pipeline returns the last status collected
PipelineLastStatus(s) == WEXITSTATUS(s)

\* the value lsh_execute returns for a pipeline
PipelineResult(s) == 1

\* a mutant of PipelineReturn: the wait loop runs pipe_count times
PipelineReturnEarly ==
  /\ pc = "wait"
  /\ i = pipe_count
  /\ ret' = PipelineResult(status)
  /\ pc' = "ret"
  /\ UNCHANGED <<launched, line, failed, args, i, pipe_count, pipe_locate, pfd, status, proc, chan, made,
                 tty, out, err>>

\* the wait loop is done: return 1
PipelineReturn ==
  /\ pc = "wait"
  /\ i = pipe_count + 1
  /\ ret' = PipelineResult(status)
  /\ pc' = "ret"
  /\ UNCHANGED <<launched, line, failed, args, i, pipe_count, pipe_locate, pfd, status, proc, chan, made,
                 tty, out, err>>

(* --- the child of stage k --- *)
\* a mutant of ChildRedirect: the last stage keeps the write end of its input
ChildRedirectLeak(t, k, n, pf) ==
  IF k = 0
  THEN close(close(dup2(t, pf[0][2], 1), pf[0][1]), pf[0][2])
  ELSE IF k = n
  THEN close(dup2(t, pf[k - 1][1], 0), pf[k - 1][1])
  ELSE close(close(close(close(
         dup2(dup2(t, pf[k - 1][1], 0), pf[k][2], 1),
         pf[k - 1][1]), pf[k - 1][2]), pf[k][1]), pf[k][2])

\* a mutant of ChildRedirect: a middle stage keeps the read end of its output
ChildRedirectKeepsRead(t, k, n, pf) ==
  IF k = 0
  THEN close(close(dup2(t, pf[0][2], 1), pf[0][1]), pf[0][2])
  ELSE IF k = n
  THEN close(close(dup2(t, pf[k - 1][1], 0), pf[k - 1][1]), pf[k - 1][2])
  ELSE close(close(close(
         dup2(dup2(t, pf[k - 1][1], 0), pf[k][2], 1),
         pf[k - 1][1]), pf[k - 1][2]), pf[k][2])

\* the dup2 and close calls of the child of stage k of a pipeline
ChildRedirect(t, k, n, pf) ==
  IF k = 0
  THEN close(close(dup2(t, pf[0][2], 1), pf[0][1]), pf[0][2])
  ELSE IF k = n
  THEN close(close(dup2(t, pf[k - 1][1], 0), pf[k - 1][1]), pf[k - 1][2])
  ELSE close(close(close(close(
         dup2(dup2(t, pf[k - 1][1], 0), pf[k][2], 1),
         pf[k - 1][1]), pf[k - 1][2]), pf[k][1]), pf[k][2])

Redirect(k) ==
  /\ proc[Stage(k)].st = "run"
  /\ proc[Stage(k)].pc = "redir"
  /\ proc' = [proc EXCEPT ![Stage(k)].fds = ChildRedirect(@, k, pipe_count, pfd),
                          ![Stage(k)].pc = "launch"]
  /\ UNCHANGED <<launched, line, failed, pc, args, i, pipe_count, pipe_locate, pfd, status, ret, chan, made,
                 tty, out, err>>

\* a mutant of ArgStart: the stage starts one token late
ArgStartLate(k) == pipe_locate[k + 1] + 2

\* the argument of lsh_launch in the child of stage k, as a C index of args
ArgStart(k) == pipe_locate[k + 1] + 1

\* the status the child passes to exit: exit(lsh_launch(args)) or exit(0)
ChildExitCode(r) == IF pipe_count = 0 THEN r ELSE 0

\* the built-in number j on the stage at C index p
BuiltinResult(j, arr, p, nul, cwd) ==
  Only({CASE j = 1 -> lsh_cd(a, cwd)
          [] j = 2 -> lsh_cat(a, cwd)
          [] j = 3 -> lsh_echo(a, nul, cwd)
          [] j = 4 -> lsh_help(a, cwd)
          [] j = 5 -> lsh_exit(a, cwd)
          [] j = 6 -> lsh_pwd(a, cwd)
          [] j = 7 -> lsh_sort(arr, p, <<>>, NoJunk, cwd) :
        a \in {UpToNull(arr, p).items}})

\* a process after a built-in returned res: killed if it crashed, else on its
\* way to exit with the output in its stdio buffer
AfterBuiltin(rec, res) ==
  IF res.crash THEN Killed(rec, SIGSEGV)
  ELSE [rec EXCEPT !.outbuf = res.out, !.code = ChildExitCode(res.ret),
                   !.cwd = res.cwd, !.pc = "exit"]

IsSortRead(k) ==
  /\ BuiltinIndex(args[ArgStart(k) + 1]) = 7
  /\ SortReads(args, ArgStart(k))

\* lsh_launch finds a built-in that does not read standard input and runs it
LaunchBuiltin(k) ==
  /\ proc[Stage(k)].st = "run"
  /\ proc[Stage(k)].pc = "launch"
  /\ args[ArgStart(k) + 1] # Null
  /\ BuiltinIndex(args[ArgStart(k) + 1]) # 0
  /\ ~IsSortRead(k)
  /\ \E nul \in NullPrints :
       \E res \in {BuiltinResult(BuiltinIndex(args[ArgStart(k) + 1]), args,
                                 ArgStart(k), nul, proc[Stage(k)].cwd)} :
         /\ proc' = [proc EXCEPT ![Stage(k)] = AfterBuiltin(@, res)]
         /\ err' = err \cup res.err
  /\ launched' = launched \cup {<<k, UpToNull(args, ArgStart(k)).items>>}
  /\ UNCHANGED <<line, failed, pc, args, i, pipe_count, pipe_locate, pfd, status, ret, chan, made,
                 tty, out>>

\* lsh_launch finds sort without arguments: it starts reading standard input
LaunchSort(k) ==
  /\ proc[Stage(k)].st = "run"
  /\ proc[Stage(k)].pc = "launch"
  /\ args[ArgStart(k) + 1] # Null
  /\ IsSortRead(k)
  /\ proc' = [proc EXCEPT ![Stage(k)].pc = "sortread"]
  /\ launched' = launched \cup {<<k, UpToNull(args, ArgStart(k)).items>>}
  /\ UNCHANGED <<line, failed, pc, args, i, pipe_count, pipe_locate, pfd, status, ret, chan, made,
                 tty, out, err>>

\* lsh_launch finds no built-in: fork, the child of the child runs execvp
LaunchExternal(k) ==
  /\ proc[Stage(k)].st = "run"
  /\ proc[Stage(k)].pc = "launch"
  /\ args[ArgStart(k) + 1] # Null
  /\ BuiltinIndex(args[ArgStart(k) + 1]) = 0
  /\ proc' = [proc EXCEPT ![Prog(k)] = Child(proc[Stage(k)], "exec"),
                          ![Stage(k)].pc = "waitprog"]
  /\ launched' = launched \cup {<<k, UpToNull(args, ArgStart(k)).items>>}
  /\ UNCHANGED <<line, failed, pc, args, i, pipe_count, pipe_locate, pfd, status, ret, chan, made,
                 tty, out, err>>

\* lsh_launch on a stage without a command name: strcmp(NULL, ...) is
\* undefined; the child is killed, or the comparison fails and it goes on to
\* fork and execvp(NULL, ...)
LaunchNull(k) ==
  /\ proc[Stage(k)].st = "run"
  /\ proc[Stage(k)].pc = "launch"
  /\ args[ArgStart(k) + 1] = Null
  /\ \/ proc' = [proc EXCEPT ![Stage(k)] = Killed(@, SIGSEGV)]
     \/ proc' = [proc EXCEPT ![Prog(k)] = Child(proc[Stage(k)], "exec"),
                             ![Stage(k)].pc = "waitprog"]
  /\ launched' = launched \cup {<<k, UpToNull(args, ArgStart(k)).items>>}
  /\ UNCHANGED <<line, failed, pc, args, i, pipe_count, pipe_locate, pfd, status, ret, chan, made,
                 tty, out, err>>

\* lsh_launch: waitpid for the program, then return 1
LaunchWait(k) ==
  /\ proc[Stage(k)].st = "run"
  /\ proc[Stage(k)].pc = "waitprog"
  /\ proc[Prog(k)].st = "zombie"
  /\ WIFEXITED(proc[Prog(k)].status) \/ WIFSIGNALED(proc[Prog(k)].status)
  /\ proc' = [proc EXCEPT ![Prog(k)].st = "reaped",
                          ![Stage(k)].status = proc[Prog(k)].status,
                          ![Stage(k)].code = ChildExitCode(1),
                          ![Stage(k)].pc = "exit"]
  /\ UNCHANGED <<launched, line, failed, pc, args, i, pipe_count, pipe_locate, pfd, status, ret, chan, made,
                 tty, out, err>>

(* --- the program of stage k --- *)
\* a mutant of ExecFails: after perror the child returns from lsh_launch to
\* the code of its parent
ExecFailsReturns(k) ==
  /\ proc[Prog(k)].st = "run"
  /\ proc[Prog(k)].pc = "exec"
  /\ args[ArgStart(k) + 1] \notin Installed
  /\ proc' = [proc EXCEPT ![Prog(k)].pc = "waitprog"]
  /\ err' = err \cup {"perror"}
  /\ UNCHANGED <<launched, line, failed, pc, args, i, pipe_count, pipe_locate, pfd, status, ret, chan, made,
                 tty, out>>

\* execvp fails: perror, exit(EXIT_FAILURE)
ExecFails(k) ==
  /\ proc[Prog(k)].st = "run"
  /\ proc[Prog(k)].pc = "exec"
  /\ args[ArgStart(k) + 1] \notin Installed
  /\ proc' = [proc EXCEPT ![Prog(k)].code = EXIT_FAILURE, ![Prog(k)].pc = "exit"]
  /\ err' = err \cup {"perror"}
  /\ UNCHANGED <<launched, line, failed, pc, args, i, pipe_count, pipe_locate, pfd, status, ret, chan, made,
                 tty, out>>

\* execvp succeeds: the program runs
ExecRuns(k) ==
  /\ proc[Prog(k)].st = "run"
  /\ proc[Prog(k)].pc = "exec"
  /\ args[ArgStart(k) + 1] \in Installed
  /\ IF ProgReads(args[ArgStart(k) + 1])
     THEN proc' = [proc EXCEPT ![Prog(k)].pc = "progread"]
     ELSE \E c \in LsExitCodes :
            proc' = [proc EXCEPT ![Prog(k)].outbuf = LsOut, ![Prog(k)].code = c,
                                 ![Prog(k)].pc = "exit"]
  /\ UNCHANGED <<launched, line, failed, pc, args, i, pipe_count, pipe_locate, pfd, status, ret, chan, made,
                 tty, out, err>>

(* --- reading standard input, writing standard output, exit --- *)
Reading(p) == proc[p].st = "run" /\ proc[p].pc \in {"sortread", "progread"}

\* read(0) returns the bytes waiting in the pipe
ReadPipe(p) ==
  /\ Reading(p)
  /\ proc[p].fds[0][1] = "r"
  /\ chan[proc[p].fds[0][2]] # <<>>
  /\ proc' = [proc EXCEPT ![p].inbuf = @ \o chan[proc[p].fds[0][2]]]
  /\ chan' = [chan EXCEPT ![proc[p].fds[0][2]] = <<>>]
  /\ UNCHANGED <<launched, line, failed, pc, args, i, pipe_count, pipe_locate, pfd, status, ret, made, tty,
                 out, err>>

\* read(0) returns a line the user types
ReadTty(p) ==
  /\ Reading(p)
  /\ proc[p].fds[0] = Tty
  /\ tty < MaxTty
  /\ \E l \in TtyLines : proc' = [proc EXCEPT ![p].inbuf = @ \o l \o <<"\n">>]
  /\ tty' = tty + 1
  /\ UNCHANGED <<launched, line, failed, pc, args, i, pipe_count, pipe_locate, pfd, status, ret, chan, made,
                 out, err>>

\* read(0) returns 0 or fails: the user ends the input, or the pipe is empty
\* and no process holds its write end, or descriptor 0 cannot be read
AtEof(p) ==
  \/ proc[p].fds[0] = Tty
  \/ proc[p].fds[0][1] \in {"closed", "w"}
  \/ /\ proc[p].fds[0][1] = "r"
     /\ chan[proc[p].fds[0][2]] = <<>>
     /\ Writers(proc[p].fds[0][2]) = {}

\* lsh_sort after fgets returned NULL: count, sort, print, return 1
SortEof(k) ==
  /\ proc[Stage(k)].st = "run"
  /\ proc[Stage(k)].pc = "sortread"
  /\ AtEof(Stage(k))
  /\ \E junk \in JunkTails :
       \E lines \in {SplitLines(proc[Stage(k)].inbuf, <<>>)} :
         \E res \in {lsh_sort(args, ArgStart(k), lines, junk, proc[Stage(k)].cwd)} :
           proc' = [proc EXCEPT ![Stage(k)] = AfterBuiltin(@, res)]
  /\ UNCHANGED <<launched, line, failed, pc, args, i, pipe_count, pipe_locate, pfd, status, ret, chan, made,
                 tty, out, err>>

\* the program wc after end-of-input
ProgEof(k) ==
  /\ proc[Prog(k)].st = "run"
  /\ proc[Prog(k)].pc = "progread"
  /\ AtEof(Prog(k))
  /\ proc' = [proc EXCEPT ![Prog(k)].outbuf = WcOut(proc[Prog(k)].inbuf),
                          ![Prog(k)].code = EXIT_SUCCESS, ![Prog(k)].pc = "exit"]
  /\ UNCHANGED <<launched, line, failed, pc, args, i, pipe_count, pipe_locate, pfd, status, ret, chan, made,
                 tty, out, err>>

\* exit: the stdio buffer is written to descriptor 1 and the process ends; a
\* write to a pipe nobody can read kills it with SIGPIPE
ExitProc(p) ==
  /\ proc[p].st = "run"
  /\ proc[p].pc = "exit"
  /\ LET t == proc[p].fds[1]
         data == proc[p].outbuf
     IN  IF data = <<>> \/ t[1] # "w"
         THEN /\ proc' = [proc EXCEPT ![p] = Exited(@, proc[p].code)]
              /\ out' = [out EXCEPT ![p[2]] = @ \o (IF t = Tty THEN data ELSE <<>>)]
              /\ UNCHANGED chan
         ELSE IF Readers(t[2]) = {}
         THEN /\ proc' = [proc EXCEPT ![p] = Killed(@, SIGPIPE)]
              /\ UNCHANGED <<out, chan>>
         ELSE /\ proc' = [proc EXCEPT ![p] = Exited(@, proc[p].code)]
              /\ out' = [out EXCEPT ![p[2]] = @ \o data]
              /\ chan' = [chan EXCEPT ![t[2]] = @ \o data]
  /\ UNCHANGED <<launched, line, failed, pc, args, i, pipe_count, pipe_locate, pfd, status, ret, made, tty,
                 err>>

(* ------------------------------ the system ----------------------------- *)
Next ==
  \/ ReadPartial
  \/ ReadLine
  \/ ReadEnd
  \/ LoopTest
  \/ ExecuteEmpty
  \/ ExecuteScan
  \/ ForkSingle
  \/ WaitSingle
  \/ MakePipe
  \/ ForkStage
  \/ ParentClose
  \/ WaitChild
  \/ PipelineReturn
  \/ \E k \in StageIds :
       \/ Redirect(k)
       \/ LaunchBuiltin(k)
       \/ LaunchSort(k)
       \/ LaunchExternal(k)
       \/ LaunchNull(k)
       \/ LaunchWait(k)
       \/ ExecFails(k)
       \/ ExecRuns(k)
       \/ SortEof(k)
       \/ ProgEof(k)
  \/ \E p \in ProcIds \ {Shell} :
       \/ ReadPipe(p)
       \/ ReadTty(p)
       \/ ExitProc(p)

Spec == Init /\ [][Next]_vars

\* the processes run by the operating system's scheduler, and a user who ends
\* the input of a stage that reads the terminal: every step but the typing
Step ==
  \/ LoopTest
  \/ ExecuteEmpty
  \/ ExecuteScan
  \/ ForkSingle
  \/ WaitSingle
  \/ MakePipe
  \/ ForkStage
  \/ ParentClose
  \/ WaitChild
  \/ PipelineReturn
  \/ \E k \in StageIds :
       \/ Redirect(k)
       \/ LaunchBuiltin(k)
       \/ LaunchSort(k)
       \/ LaunchExternal(k)
       \/ LaunchNull(k)
       \/ LaunchWait(k)
       \/ ExecFails(k)
       \/ ExecRuns(k)
       \/ SortEof(k)
       \/ ProgEof(k)
  \/ \E p \in ProcIds \ {Shell} :
       \/ ReadPipe(p)
       \/ ExitProc(p)

LiveSpec == Init /\ [][Next]_vars /\ WF_vars(Step)


(* ------------------- failing pipe and fork calls ----------------------- *)
\* what the uninitialised status can hold: exited 0, exited 1, killed by
\* SIGSEGV, stopped by signal 19
GarbageStatus == {0, 256, 11, 4991}
\* what an uninitialised pfd[i] can hold
GarbageFds == {<<0 - 1, 0 - 1>>, <<0, 1>>, <<3, 4>>}

\* no pipe, fork() returns -1: lsh_execute takes the parent's branch
ForkSingleFails ==
  /\ pc = "fork1"
  /\ failed' = failed \cup {<<"fork", 0>>}
  /\ status' \in GarbageStatus
  /\ pc' = "wait1"
  /\ UNCHANGED <<launched, line, args, i, pipe_count, pipe_locate, pfd, ret, proc, chan, made,
                 tty, out, err>>

\* waitpid(-1, ...) without a child fails and leaves status as it was; the
\* loop ends only if that value reads as exited or killed
WaitSingleFails ==
  /\ pc = "wait1"
  /\ proc[Stage(0)].st = "none"
  /\ WIFEXITED(status) \/ WIFSIGNALED(status)
  /\ ret' = SingleResult(status)
  /\ pc' = "ret"
  /\ UNCHANGED <<launched, line, failed, args, i, pipe_count, pipe_locate, pfd, status, proc,
                 chan, made, tty, out, err>>

\* pipe(pfd[i]) fails: its result is not looked at, pfd[i] stays uninitialised
PipeFails ==
  /\ pc = "pipe"
  /\ \E g \in GarbageFds : pfd' = [pfd EXCEPT ![i] = g]
  /\ failed' = failed \cup {<<"pipe", i>>}
  /\ pc' = "fork"
  /\ UNCHANGED <<launched, line, args, i, pipe_count, pipe_locate, status, ret, proc, chan,
                 made, tty, out, err>>

\* fork() for stage i returns -1: lsh_execute takes the parent's branch
ForkStageFails ==
  /\ pc = "fork"
  /\ failed' = failed \cup {<<"fork", i>>}
  /\ pc' = "close"
  /\ UNCHANGED <<launched, line, args, i, pipe_count, pipe_locate, pfd, status, ret, proc,
                 chan, made, tty, out, err>>

\* wait(&status) without a child left returns at once
WaitNoChild ==
  /\ pc = "wait"
  /\ i < pipe_count + 1
  /\ \A p \in Children : proc[p].st \notin {"run", "zombie"}
  /\ i' = i + 1
  /\ UNCHANGED <<launched, line, failed, pc, args, pipe_count, pipe_locate, pfd, status, ret,
                 proc, chan, made, tty, out, err>>

\* fork() in lsh_launch returns -1: perror, return 1
LaunchForkFails(k) ==
  /\ proc[Stage(k)].st = "run"
  /\ proc[Stage(k)].pc = "launch"
  /\ args[ArgStart(k) + 1] # Null
  /\ BuiltinIndex(args[ArgStart(k) + 1]) = 0
  /\ proc' = [proc EXCEPT ![Stage(k)].code = ChildExitCode(1),
                          ![Stage(k)].pc = "exit"]
  /\ err' = err \cup {"perror"}
  /\ launched' = launched \cup {<<k, UpToNull(args, ArgStart(k)).items>>}
  /\ UNCHANGED <<line, failed, pc, args, i, pipe_count, pipe_locate, pfd, status,
                 ret, chan, made, tty, out>>

NextFault ==
  \/ Next
  \/ ForkSingleFails
  \/ WaitSingleFails
  \/ PipeFails
  \/ ForkStageFails
  \/ WaitNoChild
  \/ \E k \in StageIds : LaunchForkFails(k)

SpecFault == Init /\ [][NextFault]_vars

(* ------------------- a signal for the child of a command --------------- *)
\* another process of the user sends SIGTERM to the child lsh_execute forked
\* for a single command, while no program forked by that child runs
KillChild ==
  /\ pc = "wait1"
  /\ proc[Stage(0)].st = "run"
  /\ proc[Prog(0)].st # "run"
  /\ proc' = [proc EXCEPT ![Stage(0)] = Killed(@, SIGTERM)]
  /\ UNCHANGED <<launched, line, failed, pc, args, i, pipe_count, pipe_locate, pfd, status,
                 ret, chan, made, tty, out, err>>

NextSignal ==
  \/ Next
  \/ KillChild

SpecSignal == Init /\ [][NextSignal]_vars

(* --------------------------- long pipelines ---------------------------- *)
\* lsh_execute on lines of up to MaxBars separators: the scan, and the loop
\* that creates the pipes and forks the stages; a child is followed up to its
\* call of lsh_launch, which does not depend on the descriptors

\* the tokens of stage j of the v-th long line with k separators
WideStage(v, j) ==
  CASE v = 1 -> <<T_ls>>
    [] v = 2 -> IF j % 2 = 0 THEN <<T_echo, A>> ELSE <<T_sort>>
    [] v = 3 -> IF j = 1 THEN <<>> ELSE <<T_wc, B, A>>

RECURSIVE WideFrom(_, _, _)
WideFrom(k, v, j) ==
  IF j = k THEN WideStage(v, j)
  ELSE WideStage(v, j) \o <<Bar>> \o WideFrom(k, v, j + 1)

WideLines == {WideFrom(k, v, 0) : k \in 1..MaxBars, v \in 1..3}

WideRead ==
  /\ pc = "read"
  /\ \E l \in WideLines :
       /\ line' = l
       /\ args' = l \o <<Null>>
  /\ pc' = "execute"
  /\ UNCHANGED <<launched, failed, i, pipe_count, pipe_locate, pfd, status, ret, proc, chan,
                 made, tty, out, err>>

\* the process is killed after a store outside an array
WideKilled ==
  /\ pc' = "exited"
  /\ proc' = [proc EXCEPT ![Shell] = Killed(@, SIGSEGV)]

\* the scan for "|"; a store to pipe_locate[10] or beyond is undefined: the
\* process is killed, or the store lands in memory nothing else uses
WideScan ==
  /\ pc = "execute"
  /\ args[1] # Null
  /\ \E s \in {ScanPipes(args, 0, 0, <<0 - 1>>)} :
       /\ args' = s.args
       /\ pipe_count' = s.pipe_count
       /\ pipe_locate' = s.pipe_locate
       /\ s.pipe_count # 0
       /\ IF s.pipe_count < PipeLocateSize
          THEN pc' = "pipe" /\ UNCHANGED proc
          ELSE \/ pc' = "pipe" /\ UNCHANGED proc
               \/ WideKilled
  /\ i' = 0
  /\ UNCHANGED <<launched, line, failed, pfd, status, ret, chan, made, tty, out, err>>

\* pipe(pfd[i]); for i >= 9 the two descriptors are stored outside pfd
WidePipe ==
  /\ pc = "pipe"
  /\ made' = made \cup {i}
  /\ IF i < PfdSize
     THEN pc' = "fork" /\ UNCHANGED proc
     ELSE \/ pc' = "fork" /\ UNCHANGED proc
          \/ WideKilled
  /\ UNCHANGED <<launched, line, failed, args, i, pipe_count, pipe_locate, pfd, status, ret,
                 chan, tty, out, err>>

\* fork(); the child calls lsh_launch(args + pipe_locate[i] + 1)
WideFork ==
  /\ pc = "fork"
  /\ launched' = launched \cup {<<i, UpToNull(args, ArgStart(i)).items>>}
  /\ pc' = "close"
  /\ UNCHANGED <<line, failed, args, i, pipe_count, pipe_locate, pfd, status, ret, proc,
                 chan, made, tty, out, err>>

\* the parent's end of the loop body: i++ and the loop test
WideClose ==
  /\ pc = "close"
  /\ IF i + 1 < pipe_count + 1
     THEN /\ i' = i + 1
          /\ pc' = IF i + 1 # pipe_count THEN "pipe" ELSE "fork"
     ELSE /\ i' = 0
          /\ pc' = "wait"
  /\ UNCHANGED <<launched, line, failed, args, pipe_count, pipe_locate, pfd, status, ret,
                 proc, chan, made, tty, out, err>>

\* the wait loop, then return 1
WideReturn ==
  /\ pc = "wait"
  /\ ret' = PipelineResult(status)
  /\ pc' = "ret"
  /\ UNCHANGED <<launched, line, failed, args, i, pipe_count, pipe_locate, pfd, status,
                 proc, chan, made, tty, out, err>>

NextWide ==
  \/ WideRead
  \/ WideScan
  \/ WidePipe
  \/ WideFork
  \/ WideClose
  \/ WideReturn
  \/ LoopTest

SpecWide == Init /\ [][NextWide]_vars

(* ------------------------------ properties ----------------------------- *)
Created == {p \in ProcIds \ {Shell} : proc[p].st # "none"}
Single == line # <<>> /\ NumStages(line) = 1
Piped == NumStages(line) >= 2
HasEmptyStage(l) ==
  \/ l[1] = Bar
  \/ l[Len(l)] = Bar
  \/ \E k \in 1..(Len(l) - 1) : l[k] = Bar /\ l[k + 1] = Bar

HoldsChannel(p) == \E f \in Fds : proc[p].fds[f][1] \in {"r", "w"}

\* C1: for a line without "|", a built-in is executed without creating a
\* process and an external program with exactly one process created
C1_SingleCommandProcesses ==
  (pc = "ret" /\ Single) =>
    IF BuiltinIndex(line[1]) # 0 THEN Created = {} ELSE Cardinality(Created) = 1

\* C2: for a single external command whose program ran and exited with
\* status s, lsh_execute returns s
C2_ExitStatusPropagated ==
  (/\ pc = "ret" /\ Single /\ line[1] \in Installed
   /\ proc[Prog(0)].st = "reaped" /\ WIFEXITED(proc[Prog(0)].status))
  => ret = WEXITSTATUS(proc[Prog(0)].status)

\* C3: a pipeline of N >= 2 stages creates exactly N processes and N-1 pipes
\* (stated for the pipelines in which every stage has a command name)
C3_PipelineCounts ==
  (pc = "ret" /\ Piped /\ ~HasEmptyStage(line)) =>
    /\ Cardinality(Created) = NumStages(line)
    /\ Cardinality(made) = NumStages(line) - 1

\* C4: while the parent of a pipeline waits, from its first wait call on, it
\* holds no descriptor of any end of any pipe
C4_ParentHoldsNoChannel ==
  (pc = "wait" /\ Piped) => ~HoldsChannel(Shell)

C4_Witness ==
  /\ pc = "wait" /\ i = 0 /\ NumStages(line) = 3
  /\ made = {0, 1}
  /\ \E k \in StageIds : proc[Stage(k)].st = "run" /\ HoldsChannel(Stage(k))

AllCollected ==
  /\ \A k \in StageIds : k <= pipe_count => proc[Stage(k)].st = "reaped"
  /\ \A k \in StageIds : proc[Prog(k)].st \in {"none", "reaped"}
  /\ \A c \in made : Writers(c) = {} /\ Readers(c) = {}

\* C5: every pipeline that lsh_execute starts is followed by its return to the
\* loop, with every stage process terminated and collected and every end of
\* every pipe closed in every process
C5_PipelineTerminates ==
  (pc = "pipe" /\ i = 0) ~> (pc = "ret" /\ Piped /\ AllCollected)

C5_Witness ==
  /\ pc = "ret"
  /\ line = <<T_sort, Bar, T_sort>>
  /\ AllCollected
  /\ tty = MaxTty
  /\ proc[Stage(1)].inbuf # <<>>
  /\ out[1] # <<>>

\* C6: the line `exit` makes lsh_execute return 0, and the loop then ends
\* without reading another line
C6_ExitEndsLoop ==
  [][ /\ (line = <<T_exit>> /\ pc' = "ret") => ret' = 0
      /\ (line = <<T_exit>> /\ pc = "ret") => pc' = "exited" ]_vars

C6_Witness == pc = "ret" /\ line = <<T_exit>> /\ ret = 0

\* C7: lsh_execute returns 1 for every pipeline, whatever its stages are and
\* however they end
C7_PipelineContinues ==
  (pc = "ret" /\ Piped) => ret = 1

C7_Witness ==
  /\ pc = "ret" /\ ret = 1
  /\ line = <<T_wc, Bar, T_exit, Bar, T_xx>>
  /\ proc[Stage(1)].st = "reaped"
  /\ proc[Prog(2)].status = W_EXITCODE(EXIT_FAILURE)

\* C8: a line with an empty stage is reported on standard error and aborted:
\* no process is created for any stage, and lsh_execute returns 1
C8_EmptyStageAborts ==
  (pc = "ret" /\ Piped /\ HasEmptyStage(line)) =>
    /\ err # {}
    /\ Created = {}
    /\ ret = 1

\* C9: after a failed pipe or fork call the failure is reported on standard
\* error, no further stage is created, every process created was waited for,
\* the parent holds no pipe descriptor, and lsh_execute returns 1
C9_CreationFailureHandled ==
  (pc = "ret" /\ failed # {}) =>
    /\ err # {}
    /\ \A f \in failed : \A k \in StageIds : k > f[2] => proc[Stage(k)].st = "none"
    /\ \A k \in StageIds : proc[Stage(k)].st \in {"none", "reaped"}
    /\ ~HoldsChannel(Shell)
    /\ ret = 1


\* the text of `echo w1 ... wk`: the words with single spaces between them
RECURSIVE Joined(_)
Joined(ws) ==
  IF Len(ws) = 1 THEN ws[1] ELSE ws[1] \o <<" ">> \o Joined(Tail(ws))

\* one numbered line per word, in ascending order
RECURSIVE Numbered(_, _)
Numbered(ws, m) ==
  IF m > Len(ws) THEN <<>>
  ELSE <<"[">> \o Dec(m) \o <<"]", ":", " ">> \o ws[m] \o <<"\n">> \o Numbered(ws, m + 1)

EchoSortLines == {<<T_echo, A, B, C, Bar, T_sort>>, <<T_echo, C, A, Bar, T_sort>>}
EchoWords(l) == SubSeq(l, 2, Len(l) - 2)
SortedWords(l) == IF l[2] = A THEN <<A, B, C>> ELSE <<A, C>>
EchoSortDone ==
  /\ pc = "ret"
  /\ line \in EchoSortLines
  /\ proc[Stage(1)].status = W_EXITCODE(0)

\* C10 as stated: `echo w1 ... wk | sort` prints one numbered line per word
C10_OneLinePerWord ==
  EchoSortDone => out[1] = Numbered(SortedWords(line), 1)

\* the numbered line sort prints for its m-th item s, without the newline
NumLine(m, s) == <<"[">> \o Dec(m) \o <<"]", ":", " ">> \o s

SortOutLines == SplitLines(out[1], <<>>)

\* C10 as amended: sort receives the words as the single line `w1 ... wk` and
\* prints that line as one numbered item
C10_OneLineForAllWords ==
  EchoSortDone =>
    /\ SplitLines(proc[Stage(1)].inbuf, <<>>) = <<Joined(EchoWords(line))>>
    /\ \E m \in 1..Len(SortOutLines) :
         SortOutLines[m] = NumLine(m, Joined(EchoWords(line)))

C10_Witness ==
  /\ EchoSortDone
  /\ line = <<T_echo, A, B, C, Bar, T_sort>>
  /\ out[1] = <<"[", "1", "]", ":", " ", "a", " ", "b", " ", "c", "\n">>

(* --------------------- the working directory (cd) ---------------------- *)
CdLine == <<T_cd, <<"d">>>>
CdTarget == chdir(Root, CdLine[2])

\* C11: after the single command `cd P` with P an existing directory, the
\* working directory of the interactive process is P
C11_CdChangesShellDirectory ==
  (pc = "ret" /\ line = CdLine /\ CdTarget # Null) => proc[Shell].cwd = CdTarget

(* ------------------- the status of a failed execution ------------------ *)
ExternalDone ==
  /\ pc = "ret" /\ Single
  /\ BuiltinIndex(line[1]) = 0
  /\ proc[Prog(0)].st = "reaped"

ProgSucceeded == proc[Prog(0)].status = W_EXITCODE(EXIT_SUCCESS)

\* the status lsh_execute collects when the program ran and exited
\* successfully: lsh_launch returns 1 and the child exits with that value
SuccessObserved == W_EXITCODE(ChildExitCode(1))

\* C12: for a single external command the failure to execute it is reported
\* and the attempting process exits with a non-zero status, and the status
\* lsh_execute observes for a failed execution differs from the one it
\* observes for a program that ran and exited successfully
C12_FailedExecDistinct ==
  ExternalDone =>
    /\ ProgSucceeded => status = SuccessObserved
    /\ line[1] \notin Installed =>
         /\ "perror" \in err
         /\ WEXITSTATUS(proc[Prog(0)].status) # 0
         /\ status # SuccessObserved

(* --------------------------- end of input ------------------------------ *)
InReader == pc \in {"read", "reading"}

\* C13: when lsh_read_line stops without delivering a line, at the start of a
\* line or after a part of one, the program has terminated with the success
\* status and no process was created for a command; a terminated program
\* takes no further step
C13_EndOfInputTerminates ==
  [][ /\ (InReader /\ pc' \notin {"read", "reading", "execute"}) =>
           /\ pc' = "exited"
           /\ proc'[Shell].st = "zombie"
           /\ proc'[Shell].status = W_EXITCODE(EXIT_SUCCESS)
           /\ \A p \in ProcIds \ {Shell} : proc'[p].st = "none"
      /\ pc # "exited" ]_vars

\* end-of-input after the characters of `exit`: the loop did not end by a
\* zero return value, and the command was not executed
C13_Witness ==
  /\ pc = "exited"
  /\ line = <<T_exit>>
  /\ ret # 0
  /\ args = <<Null>>
  /\ proc[Shell].status = W_EXITCODE(EXIT_SUCCESS)

(* --------------------- the stages of a long pipeline ------------------- *)
\* the positions of the "|" tokens of l, with 0 before and Len(l) + 1 after
BarsOf(l) == {n \in 1..Len(l) : l[n] = Bar}
NthBar(l, s) ==
  IF s = 0 THEN 0
  ELSE IF s > Cardinality(BarsOf(l)) THEN Len(l) + 1
  ELSE CHOOSE n \in BarsOf(l) : Cardinality({m \in BarsOf(l) : m <= n}) = s

\* the tokens of l between separator s and separator s + 1
Segment(l, s) == SubSeq(l, NthBar(l, s) + 1, NthBar(l, s + 1) - 1)

\* C14: for a line with k separators, 1 <= k <= 7, every stage launched is
\* launched on the tokens between its separators, in their order, and when
\* the loop over the stages is done exactly the k + 1 stages were launched
C14_StagesLaunched ==
  (Cardinality(BarsOf(line)) \in 1..7) =>
    /\ \A e \in launched : e[1] \in 0..Cardinality(BarsOf(line)) /\ e[2] = Segment(line, e[1])
    /\ pc \in {"wait", "ret"} =>
         launched = {<<s, Segment(line, s)>> : s \in 0..Cardinality(BarsOf(line))}

C14_Witness ==
  /\ pc = "wait"
  /\ Cardinality(BarsOf(line)) = 7
  /\ Cardinality(launched) = 8
  /\ <<7, <<T_sort>>>> \in launched
  /\ <<6, <<T_echo, A>>>> \in launched

(* ------------------ the descriptors of a pipeline stage ---------------- *)
\* the child of stage k is about to call lsh_launch
AtLaunch(k) ==
  pipe_count >= 1 /\ proc[Stage(k)].st = "run" /\ proc[Stage(k)].pc = "launch"

\* C15: when the child of stage k of a pipeline calls lsh_launch, its
\* descriptor 0 is the read end of pipe k-1 (the shell's standard input for
\* k = 0), its descriptor 1 is the write end of pipe k (the shell's standard
\* output for the last stage), and no other descriptor of it is an end of a
\* pipe
C15_StageDescriptors ==
  \A k \in StageIds :
    AtLaunch(k) =>
      /\ proc[Stage(k)].fds[0] = IF k > 0 THEN R(k - 1) ELSE proc[Shell].fds[0]
      /\ proc[Stage(k)].fds[1] = IF k < pipe_count THEN W(k) ELSE proc[Shell].fds[1]
      /\ \A f \in Fds \ {0, 1} : proc[Stage(k)].fds[f][1] \notin {"r", "w"}

C15_Witness ==
  /\ pipe_count = 2
  /\ AtLaunch(0) /\ AtLaunch(1) /\ AtLaunch(2)
  /\ proc[Stage(1)].fds[0] = R(0)
  /\ proc[Stage(1)].fds[1] = W(1)
  /\ proc[Stage(2)].fds[1] = Tty

(* ------------------ the processes of a finished pipeline --------------- *)
\* C16: when lsh_execute returns after a pipeline, every process created for
\* it has terminated and its status was collected: none runs, none is a zombie
C16_NoProcessLeft ==
  (pc = "ret" /\ Piped) =>
    /\ \A k \in 0..pipe_count : proc[Stage(k)].st = "reaped"
    /\ \A p \in ProcIds \ {Shell} : proc[p].st \in {"none", "reaped"}

C16_Witness ==
  /\ pc = "ret"
  /\ line = <<T_ls, Bar, T_wc, Bar, T_sort>>
  /\ \A k \in 0..2 : proc[Stage(k)].st = "reaped"
  /\ proc[Prog(0)].st = "reaped" /\ proc[Prog(1)].st = "reaped"
  /\ proc[Prog(0)].status = W_EXITCODE(2)

(* --------------------------- the output of sort ------------------------ *)
Count(a, v) == Cardinality({n \in 1..Len(a) : a[n] = v})
Range(a) == {a[n] : n \in 1..Len(a)}

\* the ascending arrangement of the strings of a
SortedOf(a) ==
  CHOOSE x \in [1..Len(a) -> Range(a)] :
    /\ \A v \in Range(a) : Count(x, v) = Count(a, v)
    /\ \A n \in 1..(Len(a) - 1) : strcmp(x[n], x[n + 1]) <= 0

\* stage k of the line is a sort that ended by exit
SortStageDone(k) ==
  /\ pc = "ret"
  /\ k < NumStages(line)
  /\ Segment(line, k) # <<>>
  /\ Segment(line, k)[1] = T_sort
  /\ proc[Stage(k)].st = "reaped"
  /\ WIFEXITED(proc[Stage(k)].status)

\* what that sort was given: its arguments, or the lines it read
SortInputs(k) ==
  IF Len(Segment(line, k)) > 1 THEN Tail(Segment(line, k))
  ELSE SplitLines(proc[Stage(k)].inbuf, <<>>)

\* C17: a sort stage prints exactly its inputs, sorted ascending and numbered
\* from 1 (stated for the sort stages that have arguments or are followed by
\* another stage, where every slot sort looks at was written by the shell)
C17_SortPrintsItsInputs ==
  \A k \in StageIds :
    (SortStageDone(k) /\ (Len(Segment(line, k)) > 1 \/ k + 1 < NumStages(line))) =>
      out[k] = Numbered(SortedOf(SortInputs(k)), 1)

(* ---------------------- children never reach the loop ------------------ *)
\* where a child forked by lsh_execute can be: in its redirections, in
\* lsh_launch or a built-in, or in exit
StagePositions == {"redir", "launch", "sortread", "waitprog", "exit"}
\* where a child forked by lsh_launch can be: in execvp, in the program, or in
\* exit
ProgPositions == {"exec", "progread", "exit"}

Running(p) == proc[p].st = "run"

\* C18: a process created by the shell never runs the interactive loop: a
\* child forked by lsh_execute stays in the child's branch of lsh_execute, a
\* child forked by lsh_launch runs execvp, the program or exit, a child stops
\* running only by ending, and while the interactive process is in the loop,
\* between two calls of lsh_execute, no other process runs
C18_OnlyShellInLoop ==
  [][ /\ \A k \in StageIds :
           /\ Running(Stage(k))' => proc'[Stage(k)].pc \in StagePositions
           /\ Running(Prog(k))' => proc'[Prog(k)].pc \in ProgPositions
      /\ \A p \in ProcIds \ {Shell} :
           (Running(p) /\ ~Running(p)') => proc'[p].st = "zombie"
      /\ (pc' \in {"ret", "read", "reading", "execute"}) =>
           \A p \in ProcIds \ {Shell} : ~Running(p)' ]_vars

\* a failed execvp: the program's process ended with EXIT_FAILURE while its
\* parent waits for it in lsh_launch
C18_Witness ==
  /\ pc = "wait1"
  /\ line = <<T_xx>>
  /\ proc[Prog(0)].st = "zombie"
  /\ proc[Prog(0)].status = W_EXITCODE(EXIT_FAILURE)
  /\ Running(Stage(0)) /\ proc[Stage(0)].pc = "waitprog"

(* ------------------- the return value for a single command ------------- *)
\* C19: for a non-empty line without "|" whose command is not `exit`,
\* lsh_execute returns a non-zero value, however the child terminated
C19_SingleContinues ==
  (pc = "ret" /\ Single /\ line[1] # T_exit) => ret # 0

(* ------------------------- the bounds of the arrays -------------------- *)
\* the C indexes of pipe_locate that were stored to, and those read when the
\* stages launched so far were started
LocateStored == 0..(Len(pipe_locate) - 1)
LocateRead == {e[1] : e \in launched}

\* C20: whatever the number of "|" tokens, lsh_execute indexes pipe_locate
\* within its 10 entries and pfd within its 9 channels
C20_IndexesInBounds ==
  /\ \A n \in LocateStored \cup LocateRead : n < PipeLocateSize
  /\ \A c \in made : c < PfdSize

====
